---- MODULE Spec2Model ----
(***************************************************************************)
(* Model of vt (src/vt.go): a command-line dispatcher that loads a host    *)
(* table from a JSON configuration file, resolves an alias and a user      *)
(* shortcut, and runs one external program (virsh, virt-viewer, ssh, scp,  *)
(* ssh-copy-id), waiting for it to exit.                                   *)
(*                                                                         *)
(* Go indexes os.Args from 0; TLA+ sequences start at 1.  Arg(a, i) is the *)
(* Go expression a[i], and NArgs(a) is len(a).                             *)
(*                                                                         *)
(* Standard output is the sequence of fmt calls made so far.  Each call is *)
(* a record: Println(s) is [t |-> "println", s |-> s, w |-> 0] and         *)
(* Printf("%-*s", w, s) is [t |-> "printf", s |-> s, w |-> w].             *)
(***************************************************************************)
EXTENDS Integers, Sequences, FiniteSets, TLC

----------------------------------------------------------------------------
(* Bounds of the model *)

\* longest configuration file, in records
MaxHosts == 2
\* longest argument vector, program name included
MaxArgs == 6

----------------------------------------------------------------------------
(* Input alphabets *)

HostNames == {"h1", "h10", "v2"}

\* the bytes of each host name, for the byte-wise order of sort.Strings
Bytes == [h1 |-> <<104, 49>>, h10 |-> <<104, 49, 48>>, v2 |-> <<118, 50>>]

\* the address and port the configuration gives each host name
EndpointOf ==
    [h1  |-> <<"10.0.0.1", "2222">>,
     h10 |-> <<"10.0.0.2", "2222">>,
     v2  |-> <<"10.0.0.2", "22210">>]

Domains == {"", "guest1"}

ParentNames == {"h1", "h10"}

Commands == {"ls", "go", "view", "ssh", "alias", "copy", "copy-id"}

OpWords == Commands \cup {"rm"}

ShortcutWords == {"r", "x"}

RestWords == {"f"}

ExitCodes == {0, 1}

\* os.Args[0] as path components; path.Base takes the last one
Arg0 == <<".", "vt">>

HomeDir == "/root"

----------------------------------------------------------------------------
(* Go built-ins *)

Arg(a, i) == a[i + 1]

NArgs(a) == Len(a)

\* a[from:len(a)]
SliceFrom(a, from) == SubSeq(a, from + 1, Len(a))

\* type Host struct, and its zero value
Host(addr, port, domain, phost) ==
    [addr |-> addr, port |-> port, domain |-> domain, phost |-> phost]

ZeroHost == Host("", "", "", "")

\* v, ok := m[k]: the zero value when the key is absent
HasKey(m, k) == k \in DOMAIN m

HostAt(m, k) == IF HasKey(m, k) THEN m[k] ELSE ZeroHost

var_extend_user == [r |-> "root", u |-> "ubuntu", m |-> "mulisu"]

UserAt(k) == IF HasKey(var_extend_user, k) THEN var_extend_user[k] ELSE ""

RECURSIVE join_str(_)
join_str(s) == IF s = <<>> THEN "" ELSE Head(s) \o join_str(Tail(s))

path_Base(p) == p[Len(p)]

Println(s) == [t |-> "println", s |-> s, w |-> 0]

Printf(w, s) == [t |-> "printf", s |-> s, w |-> w]

\* byte-wise lexicographic order on strings, as Go's < on string
RECURSIVE LexLess(_, _)
LexLess(a, b) ==
    IF a = <<>> THEN b # <<>>
    ELSE IF b = <<>> THEN FALSE
    ELSE IF Head(a) # Head(b) THEN Head(a) < Head(b)
    ELSE LexLess(Tail(a), Tail(b))

StrLess(a, b) == LexLess(Bytes[a], Bytes[b])

\* insertion of x into an ascending sequence
RECURSIVE Insert(_, _)
Insert(x, s) ==
    IF s = <<>> THEN <<x>>
    ELSE IF StrLess(Head(s), x) THEN <<Head(s)>> \o Insert(x, Tail(s))
    ELSE <<x>> \o s

\* the sort left out
sort_none(s) == s

RECURSIVE sort_Strings(_)
sort_Strings(s) == IF s = <<>> THEN <<>> ELSE Insert(Head(s), sort_Strings(Tail(s)))

\* the orders in which "for k := range m" may visit the keys in ks
Orders(ks) ==
    {o \in [1 .. Cardinality(ks) -> ks] : \A i, j \in DOMAIN o : i # j => o[i] # o[j]}

RECURSIVE SeqMax(_)
SeqMax(s) ==
    IF s = <<>> THEN 0
    ELSE LET m == SeqMax(Tail(s)) IN IF Head(s) > m THEN Head(s) ELSE m

----------------------------------------------------------------------------
(* The configuration file and the host table *)

\* one object of the JSON array (type H)
RawRecords ==
    {[host |-> n, addr |-> EndpointOf[n][1], port |-> EndpointOf[n][2],
      domain |-> d, phost |-> p] :
        n \in HostNames, d \in Domains, p \in ParentNames}

\* the sequences over S of length at most n
SeqsUpTo(S, n) == UNION {[1 .. k -> S] : k \in 0 .. n}

\* what may be found at the configuration path
ConfigFiles ==
    {[kind |-> "json", hs |-> q] : q \in SeqsUpTo(RawRecords, MaxHosts)}
        \cup {[kind |-> "missing", hs |-> <<>>], [kind |-> "garbage", hs |-> <<>>]}

NilMap == <<>>

\* the loop of read_hosts: a later record replaces an earlier one of the same host
RECURSIVE BuildHosts(_)
BuildHosts(hs) ==
    IF hs = <<>> THEN NilMap
    ELSE LET n     == Len(hs)
             h     == hs[n]
             prior == BuildHosts(SubSeq(hs, 1, n - 1))
         IN  [k \in DOMAIN prior \cup {h.host} |->
                 IF k = h.host THEN Host(h.addr, h.port, h.domain, h.phost) ELSE prior[k]]

read_hosts(file) ==
    IF file.kind = "missing" THEN [err |-> "open: no such file or directory", hosts |-> NilMap]
    ELSE IF file.kind = "garbage" THEN [err |-> "invalid character", hosts |-> NilMap]
    ELSE [err |-> "nil", hosts |-> BuildHosts(file.hs)]

\* the test made on the wrong field
is_phost_by_parent(h) == h.phost = ""

is_phost(h) == h.domain = ""

default_user == UserAt("r")

----------------------------------------------------------------------------
(* The external commands: what exec.Command is given and which of the      *)
(* program's streams the child inherits                                    *)

Cmd(name, argv, stdin, stdout) ==
    [name |-> name, argv |-> argv, stdin |-> stdin, stdout |-> stdout]

NoCmd == Cmd("", <<>>, FALSE, FALSE)

ls_hosts(addr, port, user) ==
    LET uri == join_str(<<"qemu+ssh://", user, "@", addr, ":", port, "/system">>)
    IN  Cmd("virsh", <<"-c", uri, "list --all">>, FALSE, TRUE)

\* go_hosts without cmd.Stdin = os.Stdin
go_hosts_nostdin(addr, port, user) ==
    LET uri == join_str(<<"qemu+ssh://", user, "@", addr, ":", port, "/system">>)
    IN  Cmd("virsh", <<"-c", uri>>, FALSE, TRUE)

go_hosts(addr, port, user) ==
    LET uri == join_str(<<"qemu+ssh://", user, "@", addr, ":", port, "/system">>)
    IN  Cmd("virsh", <<"-c", uri>>, TRUE, TRUE)

view_hosts(addr, port, domain, user) ==
    LET uri == join_str(<<"qemu+ssh://", user, "@", addr, ":", port, "/system">>)
    IN  Cmd("virt-viewer", <<"-c", uri, domain>>, TRUE, TRUE)

ssh_hosts(addr, port, user, ssh_cmd) ==
    LET uri == join_str(<<user, "@", addr>>)
    IN  Cmd("ssh", <<"-X", "-p", port, uri, ssh_cmd>>, TRUE, TRUE)

scp_files(addr, port, user, files) ==
    LET uri == join_str(<<user, "@", addr, ":">>)
    IN  Cmd("scp", (<<"-P", port>> \o files) \o <<uri>>, TRUE, TRUE)

copy_id(addr, port, domain, user) ==
    LET uri == join_str(<<user, "@", addr>>)
    IN  Cmd("ssh-copy-id", <<"-p", port, uri>>, TRUE, TRUE)

----------------------------------------------------------------------------
(* Printing *)

\* the cells of one listing, seven to a row; j counts from 1 as Go's j+1
RECURSIVE Cells(_, _, _)
Cells(names, l, j) ==
    IF j > Len(names) THEN <<>>
    ELSE (<<Printf(l + 1, names[j])>>
            \o (IF j % 7 = 0 THEN <<Println("")>> ELSE <<>>))
            \o Cells(names, l, j + 1)

\* one of the two halves of show_hosts: collect in range order, sort, print
Listing(hs, order, phys) ==
    LET picked == SelectSeq(order, LAMBDA k : is_phost(hs[k]) = phys)
        i      == Len(picked)
        l      == SeqMax([n \in 1 .. i |-> Len(picked[n])])
        sorted == sort_Strings(picked)
    IN  Cells(sorted, l, 1) \o (IF i % 7 # 0 THEN <<Println("")>> ELSE <<>>)

\* o1 and o2 are the orders of the two range loops
show_hosts(hs, o1, o2) ==
    ((<<Println("Supported phost:")>> \o Listing(hs, o1, TRUE))
        \o <<Println("\nSupported vhost:")>>)
        \o Listing(hs, o2, FALSE)

show_users(o) ==
    <<Println("Supported user shortcut:")>>
        \o [n \in 1 .. Len(o) |-> Println(join_str(<<o[n], " ", var_extend_user[o[n]]>>))]

usage(prog) ==
    << Printf(0, join_str(<<"usage: ", prog, " <command> <args ...>\n">>)),
       Println("The commands supported are:"),
       Println("    ls      List supported host names or list domains on a physical"),
       Println("    go      Exec virsh on a physical"),
       Println("    view    Exec virt-viewer for a virtual"),
       Println("    ssh     Ssh to a physical/virtual"),
       Println("    alias   Show host info"),
       Println("    copy    Copy files"),
       Println("    copy-id Copy Identify file"),
       Println("Examples:"),
       Printf(0, join_str(<<"    ", prog, " ls      [phost|vhost]\n">>)),
       Printf(0, join_str(<<"    ", prog, " go      <phost|vhost>\n">>)),
       Printf(0, join_str(<<"    ", prog, " view    <vhost>\n">>)),
       Printf(0, join_str(<<"    ", prog, " ssh     <phost|vhost> <user>\n">>)),
       Printf(0, join_str(<<"    ", prog, " alias   <phost|vhost>\n">>)),
       Printf(0, join_str(<<"    ", prog, " copy    <phost|vhost> <user> <fils...>\n">>)),
       Printf(0, join_str(<<"    ", prog, " copy-id <phost|vhost> <user\n">>)) >>

----------------------------------------------------------------------------
(* main: the outcome of the dispatch is what it prints and the command it  *)
(* runs, if any.  Map iteration order is not fixed, so an outcome is one   *)
(* of a set.                                                               *)

Ret(print) == [print |-> print, cmd |-> NoCmd]

Call(cmd) == [print |-> <<>>, cmd |-> cmd]

ShowHosts(hs) ==
    {Ret(show_hosts(hs, o1, o2)) : o1 \in Orders(DOMAIN hs), o2 \in Orders(DOMAIN hs)}

ShowUsers == {Ret(show_users(o)) : o \in Orders(DOMAIN var_extend_user)}

Usage(prog) == {Ret(usage(prog))}

\* the alias taken for its own parent
phost_self(hs, h) == h

\* ph := hosts[h.phost]
phost_of(hs, h) == HostAt(hs, h.phost)

case_ls(hs, h) ==
    LET ph == phost_of(hs, h) IN {Call(ls_hosts(ph.addr, ph.port, default_user))}

case_go(hs, h) ==
    LET ph == phost_of(hs, h) IN {Call(go_hosts(ph.addr, ph.port, default_user))}

case_view(prog, hs, h) ==
    IF is_phost(h) THEN Usage(prog)
    ELSE LET ph == phost_of(hs, h)
         IN  {Call(view_hosts(ph.addr, ph.port, h.domain, default_user))}

\* the lookup whose ok is never tested
user_any(k) == TRUE

\* user, ok := extend_user[args[3]]
user_ok(k) == HasKey(var_extend_user, k)

case_ssh(prog, args, h) ==
    IF NArgs(args) < 4 THEN Usage(prog)
    ELSE IF ~user_ok(Arg(args, 3)) THEN ShowUsers
    ELSE LET user == UserAt(Arg(args, 3))
             cmd  == IF NArgs(args) = 5 THEN Arg(args, 4) ELSE ""
         IN  {Call(ssh_hosts(h.addr, h.port, user, cmd))}

case_alias(h) ==
    {Ret(<< Println(join_str(<<"addr  :", " ", h.addr>>)),
            Println(join_str(<<"port  :", " ", h.port>>)),
            Println(join_str(<<"phost :", " ", h.phost>>)),
            Println(join_str(<<"domain:", " ", h.domain>>)) >>)}

\* copy that asks for no file argument
case_copy_short(prog, args, h) ==
    IF NArgs(args) < 4 THEN Usage(prog)
    ELSE IF ~user_ok(Arg(args, 3)) THEN ShowUsers
    ELSE LET user  == UserAt(Arg(args, 3))
             files == SliceFrom(args, 4)
         IN  {Call(scp_files(h.addr, h.port, user, files))}

case_copy(prog, args, h) ==
    IF NArgs(args) < 5 THEN Usage(prog)
    ELSE IF ~user_ok(Arg(args, 3)) THEN ShowUsers
    ELSE LET user  == UserAt(Arg(args, 3))
             files == SliceFrom(args, 4)
         IN  {Call(scp_files(h.addr, h.port, user, files))}

case_copy_id(prog, args, h) ==
    IF NArgs(args) < 4 THEN Usage(prog)
    ELSE IF ~user_ok(Arg(args, 3)) THEN ShowUsers
    ELSE LET user == UserAt(Arg(args, 3))
         IN  {Call(copy_id(h.addr, h.port, h.domain, user))}

\* a switch without its default
case_default_silent(prog) == {Ret(<<>>)}

case_default(prog) == Usage(prog)

main_switch(prog, args, hs, h) ==
    LET op == Arg(args, 1) IN
    CASE op = "ls"      -> case_ls(hs, h)
      [] op = "go"      -> case_go(hs, h)
      [] op = "view"    -> case_view(prog, hs, h)
      [] op = "ssh"     -> case_ssh(prog, args, h)
      [] op = "alias"   -> case_alias(h)
      [] op = "copy"    -> case_copy(prog, args, h)
      [] op = "copy-id" -> case_copy_id(prog, args, h)
      [] OTHER          -> case_default(prog)

\* the lookup whose ok is never tested
alias_any(hs, k) == TRUE

\* h, ok := hosts[args[2]]
alias_ok(hs, k) == HasKey(hs, k)

\* main from line 233 to the call of the external command or the return
main(prog, args, hs) ==
    IF NArgs(args) = 2 /\ Arg(args, 1) = "ls" THEN ShowHosts(hs)
    ELSE IF NArgs(args) < 3 THEN Usage(prog)
    ELSE IF ~alias_ok(hs, Arg(args, 2)) THEN ShowHosts(hs)
    ELSE main_switch(prog, args, hs, HostAt(hs, Arg(args, 2)))

\* cmd.Start in place of cmd.Run: no wait for the child
Start_returns(c) == TRUE

\* cmd.Run returns only once the started child has exited
Run_returns(c) == c.state = "exited"

\* the error of cmd.Run for a child that exited with status st
Run_err(st) == IF st = 0 THEN "nil" ELSE "exit status " \o ToString(st)

\* lines 313-316: what main prints for the error of the command
report(prog, e) == IF e # "nil" THEN <<Println(e)>> \o usage(prog) ELSE <<>>

\* os.Exit with the failure of the command
exit_status_mirror(e) == IF e = "nil" THEN 0 ELSE 1

\* main returns; nothing calls os.Exit, so the process status is 0
exit_status(e) == 0

----------------------------------------------------------------------------
(* State *)

VARIABLES
    pc,         \* where main is: "start", "dispatch", "run" (inside cmd.Run), "exit"
    args,       \* os.Args
    hosts,      \* var hosts
    err,        \* main's err
    out,        \* what has been written to standard output
    child,      \* the external process
    spawned,    \* how many external processes have been started
    status      \* the exit status of the program, -1 while it runs

vars == <<pc, args, hosts, err, out, child, spawned, status>>

NoChild == [cmd |-> NoCmd, state |-> "none", code |-> 0]

\* the words tried at os.Args[i]: sub-command, alias, user shortcut, then anything
WordsAt(i) ==
    IF i = 1 THEN OpWords
    ELSE IF i = 2 THEN HostNames
    ELSE IF i = 3 THEN ShortcutWords
    ELSE RestWords

\* the argument vectors of length n, after the program name
RECURSIVE ArgsOfLen(_)
ArgsOfLen(n) ==
    IF n = 0 THEN {<<>>}
    ELSE {Append(a, w) : a \in ArgsOfLen(n - 1), w \in WordsAt(n)}

ArgVectors == UNION {ArgsOfLen(n) : n \in 0 .. MaxArgs - 1}

prog == path_Base(Arg0)

conf == join_str(<<HomeDir, "/.config/", prog, ".json">>)

Init ==
    /\ pc = "start"
    /\ args \in {<<prog>> \o a : a \in ArgVectors}
    /\ hosts = NilMap
    /\ err = "nil"
    /\ out = <<>>
    /\ child = NoChild
    /\ spawned = 0
    /\ status = -1

\* lines 220-224: user.Current fails
UserFails ==
    /\ pc = "start"
    /\ err' = "user: unknown userid"
    /\ out' = out \o <<Println(join_str(<<"Cannot get current user info:", " ", err'>>))>>
    /\ pc' = "exit"
    /\ status' = exit_status(err')
    /\ UNCHANGED <<args, hosts, child, spawned>>

\* lines 226-231: read_hosts on whatever is at the configuration path
ReadHosts ==
    /\ pc = "start"
    /\ \E file \in ConfigFiles :
         LET r == read_hosts(file) IN
         /\ err' = r.err
         /\ hosts' = r.hosts
         /\ IF r.err # "nil"
            THEN /\ out' = out \o <<Println(join_str(
                                <<"Failed to read/parse", " ", conf, " ", ":", " ", r.err>>))>>
                 /\ pc' = "exit"
                 /\ status' = exit_status(r.err)
            ELSE /\ pc' = "dispatch"
                 /\ UNCHANGED <<out, status>>
    /\ UNCHANGED <<args, child, spawned>>

\* lines 233-311, up to and including cmd.Start inside cmd.Run
Dispatch ==
    /\ pc = "dispatch"
    /\ \E r \in main(prog, args, hosts) :
         IF r.cmd = NoCmd
         THEN /\ out' = out \o r.print
              /\ pc' = "exit"
              /\ status' = exit_status(err)
              /\ UNCHANGED <<err, child, spawned>>
         ELSE \E started \in BOOLEAN :
                IF started
                THEN /\ child' = [cmd |-> r.cmd, state |-> "running", code |-> 0]
                     /\ spawned' = spawned + 1
                     /\ pc' = "run"
                     /\ out' = out \o r.print
                     /\ UNCHANGED <<err, status>>
                ELSE /\ err' = "exec: executable file not found in $PATH"
                     /\ out' = (out \o r.print) \o report(prog, err')
                     /\ pc' = "exit"
                     /\ status' = exit_status(err')
                     /\ UNCHANGED <<child, spawned>>
    /\ UNCHANGED <<args, hosts>>

\* the external process ends
ChildExit ==
    /\ child.state = "running"
    /\ \E c \in ExitCodes : child' = [child EXCEPT !.state = "exited", !.code = c]
    /\ UNCHANGED <<pc, args, hosts, err, out, spawned, status>>

\* cmd.Run returns; lines 313-317
Finish ==
    /\ pc = "run"
    /\ Run_returns(child)
    /\ err' = Run_err(child.code)
    /\ out' = out \o report(prog, err')
    /\ pc' = "exit"
    /\ status' = exit_status(err')
    /\ UNCHANGED <<args, hosts, child, spawned>>

Next == UserFails \/ ReadHosts \/ Dispatch \/ ChildExit \/ Finish

Spec == Init /\ [][Next]_vars

----------------------------------------------------------------------------
(* Reading the state *)

StartupErrors ==
    {"user: unknown userid", "open: no such file or directory", "invalid character"}

SpawnError == "exec: executable file not found in $PATH"

\* main has gone past the alias lookup and the switch
Dispatched == pc \in {"run", "exit"} /\ err \notin StartupErrors

Op == Arg(args, 1)

Alias == Arg(args, 2)

AliasResolves == NArgs(args) >= 3 /\ Alias \in DOMAIN hosts

ShortcutResolves == NArgs(args) >= 4 /\ Arg(args, 3) \in {"r", "u", "m"}

NoChildEver == spawned = 0 /\ child.state = "none"

PhysAliases == {k \in DOMAIN hosts : hosts[k].domain = ""}

VirtAliases == {k \in DOMAIN hosts : hosts[k].domain # ""}

IsCell(e) == e.t = "printf" /\ e.w > 0

\* the names in the cells of o[lo .. hi], in the order printed
CellNames(o, lo, hi) ==
    LET cells == SelectSeq(SubSeq(o, lo, hi), IsCell)
    IN  [i \in 1 .. Len(cells) |-> cells[i].s]

Range(s) == {s[i] : i \in 1 .. Len(s)}

Ascending(s) == \A i, j \in 1 .. Len(s) : i < j => StrLess(s[i], s[j])

\* where the second header of the alias listing is, 0 if nowhere
VirtHeaderAt(o) ==
    LET at == {i \in 1 .. Len(o) : o[i] = Println("\nSupported vhost:")}
    IN  IF at = {} THEN 0 ELSE CHOOSE i \in at : \A j \in at : i <= j

\* o is the alias listing: the two headers, under each the cells of its
\* aliases, and nothing but line ends besides
IsHostListing(o) ==
    LET v == VirtHeaderAt(o) IN
    /\ Len(o) >= 2
    /\ o[1] = Println("Supported phost:")
    /\ v >= 2
    /\ Range(CellNames(o, 2, v - 1)) = PhysAliases
    /\ Range(CellNames(o, v + 1, Len(o))) = VirtAliases
    /\ \A i \in 2 .. Len(o) : i # v => (IsCell(o[i]) \/ o[i] = Println(""))

\* o is the shortcut listing: the header and the three pairs, in any order
IsUserListing(o) ==
    /\ Len(o) = 4
    /\ o[1] = Println("Supported user shortcut:")
    /\ {o[i] : i \in 2 .. 4} = {Println("r root"), Println("u ubuntu"), Println("m mulisu")}

\* o is the usage text
IsUsage(o) ==
    /\ Len(o) = 17
    /\ o[1] = Printf(0, "usage: vt <command> <args ...>\n")
    /\ o[10] = Println("Examples:")
    /\ o[17] = Printf(0, "    vt copy-id <phost|vhost> <user\n")

----------------------------------------------------------------------------
(* Properties *)

\* C1: whenever a sub-command and an alias are given and the alias is not a
\* key of the host table, whatever the sub-command and whatever follows, the
\* program prints the alias listing (physical hosts, then virtual hosts) and
\* starts no child process.
C1_UnknownAlias ==
    (Dispatched /\ NArgs(args) >= 3 /\ Alias \notin DOMAIN hosts)
        => (NoChildEver /\ pc = "exit" /\ IsHostListing(out))

\* an unrecognized sub-command, an unknown alias, a non-empty table, more arguments
C1_Witness ==
    /\ Dispatched
    /\ NArgs(args) >= 5
    /\ Op \notin Commands
    /\ Alias \notin DOMAIN hosts
    /\ PhysAliases # {}
    /\ VirtAliases # {}
    /\ IsHostListing(out)

\* C2, as the claim has it: for ssh, copy and copy-id with an alias that
\* resolves, a user shortcut that is given and is not a key of the shortcut
\* table makes the program print the shortcut listing and start no child
\* process, whatever other arguments are or are not present.
C2_Original ==
    (/\ Dispatched
     /\ NArgs(args) >= 4
     /\ Op \in {"ssh", "copy", "copy-id"}
     /\ AliasResolves
     /\ ~ShortcutResolves)
        => (NoChildEver /\ pc = "exit" /\ IsUserListing(out))

\* C2, amended: the same, except that copy without a file argument prints the
\* usage text instead of the shortcut listing; no child process is started
\* in either case.
C2_UnknownShortcut ==
    (/\ Dispatched
     /\ NArgs(args) >= 4
     /\ Op \in {"ssh", "copy", "copy-id"}
     /\ AliasResolves
     /\ ~ShortcutResolves)
        => /\ NoChildEver
           /\ pc = "exit"
           /\ IF Op = "copy" /\ NArgs(args) = 4 THEN IsUsage(out) ELSE IsUserListing(out)

\* copy with files and an unknown shortcut has printed the shortcut listing
C2_Witness ==
    /\ Dispatched
    /\ NArgs(args) >= 5
    /\ Op = "copy"
    /\ AliasResolves
    /\ ~ShortcutResolves
    /\ IsUserListing(out)

\* C3: view of an alias whose record has an empty domain never starts the
\* viewer and prints the usage text; the viewer is started only for an alias
\* whose record has a non-empty domain.
C3_ViewPhysical ==
    /\ (Dispatched /\ AliasResolves /\ Op = "view" /\ HostAt(hosts, Alias).domain = "")
            => (NoChildEver /\ pc = "exit" /\ IsUsage(out))
    /\ child.cmd.name = "virt-viewer"
            => (AliasResolves /\ Op = "view" /\ HostAt(hosts, Alias).domain # "")

\* view of a physical alias, with a virtual host in the table as well
C3_Witness ==
    /\ Dispatched
    /\ AliasResolves
    /\ Op = "view"
    /\ HostAt(hosts, Alias).domain = ""
    /\ HostAt(hosts, Alias).phost # ""
    /\ VirtAliases # {}
    /\ IsUsage(out)

\* C4, as the claim has it: a sub-command that is none of ls, go, view, ssh,
\* alias, copy, copy-id makes the program print the usage text and start
\* nothing, whatever the remaining arguments.
C4_Original ==
    (Dispatched /\ NArgs(args) >= 2 /\ Op \notin Commands)
        => (NoChildEver /\ pc = "exit" /\ IsUsage(out))

\* C4, amended: such a sub-command makes the program print the usage text
\* and start nothing, unless an alias argument follows that is not a key of
\* the host table: then the alias listing is printed instead, and nothing is
\* started either.
C4_UnknownCommand ==
    (Dispatched /\ NArgs(args) >= 2 /\ Op \notin Commands)
        => /\ NoChildEver
           /\ pc = "exit"
           /\ IF NArgs(args) >= 3 /\ Alias \notin DOMAIN hosts
              THEN IsHostListing(out)
              ELSE IsUsage(out)

\* an unrecognized sub-command with an alias that resolves and more arguments
C4_Witness ==
    /\ Dispatched
    /\ NArgs(args) >= 4
    /\ AliasResolves
    /\ Op \notin Commands
    /\ IsUsage(out)

\* the fewest and the most arguments (program name included) of the CLI
\* surface for a sub-command; copy takes any number of files
MinArgsOf(op) ==
    CASE op = "ls" -> 2
      [] op \in {"go", "view", "alias"} -> 3
      [] op \in {"ssh", "copy-id"} -> 4
      [] op = "copy" -> 5

MaxArgsOf(op) ==
    CASE op = "ls" -> 3
      [] op \in {"go", "view", "alias"} -> 3
      [] op = "ssh" -> 5
      [] op = "copy-id" -> 4
      [] op = "copy" -> MaxArgs + 1

ToolOf(op) ==
    CASE op \in {"ls", "go"} -> "virsh"
      [] op = "view" -> "virt-viewer"
      [] op = "ssh" -> "ssh"
      [] op = "copy" -> "scp"
      [] op = "copy-id" -> "ssh-copy-id"

\* C5, as the claim has it: for a recognized sub-command, an argument count
\* that does not match the CLI surface (an argument missing, or more
\* arguments than the surface lists) makes the program print the usage text
\* instead of performing the action.
C5_Original ==
    (/\ Dispatched
     /\ NArgs(args) >= 2
     /\ Op \in Commands
     /\ (NArgs(args) < MinArgsOf(Op) \/ NArgs(args) > MaxArgsOf(Op)))
        => (NoChildEver /\ pc = "exit" /\ IsUsage(out))

\* C5, amended: for a recognized sub-command whose alias, if given, resolves,
\* a missing required argument makes the program print the usage text and
\* start nothing.  Arguments beyond those the surface lists do not: they are
\* ignored and the action is performed (for view of a virtual alias, and for
\* ssh and copy-id with a shortcut that resolves), ssh with more than one
\* remote command running with an empty remote command.
C5_Arity ==
    /\ (/\ Dispatched
        /\ NArgs(args) >= 2
        /\ Op \in Commands
        /\ NArgs(args) < MinArgsOf(Op)
        /\ (NArgs(args) >= 3 => AliasResolves))
            => (NoChildEver /\ pc = "exit" /\ IsUsage(out))
    /\ (/\ Dispatched
        /\ NArgs(args) >= 2
        /\ Op \in Commands
        /\ NArgs(args) > MaxArgsOf(Op)
        /\ AliasResolves
        /\ (Op \in {"ssh", "copy-id"} => ShortcutResolves)
        /\ (Op = "view" => HostAt(hosts, Alias).domain # ""))
            => IF Op = "alias"
               THEN /\ NoChildEver
                    /\ Len(out) = 4
                    /\ out[1] = Println("addr  : " \o hosts[Alias].addr)
               ELSE \/ err = SpawnError /\ NoChildEver
                    \/ /\ spawned = 1
                       /\ child.cmd.name = ToolOf(Op)
                       /\ Op = "ls" => child.cmd.argv[3] = "list --all"
                       /\ Op = "go" => Len(child.cmd.argv) = 2
                       /\ Op = "ssh" => child.cmd.argv[5] = ""

\* ssh with two remote commands has started ssh with an empty remote command
C5_Witness ==
    /\ Dispatched
    /\ NArgs(args) = 6
    /\ Op = "ssh"
    /\ AliasResolves
    /\ ShortcutResolves
    /\ child.state = "running"
    /\ child.cmd.name = "ssh"
    /\ child.cmd.argv[5] = ""

\* C6: in every run at most one child process is started, and the program
\* does not end while a child it started is still running.
C6_OneChildWaited ==
    /\ spawned <= 1
    /\ (child.state = "none") <=> (spawned = 0)
    /\ pc = "exit" => child.state # "running"
    /\ status # -1 => child.state # "running"

\* the program has ended after a child that failed
C6_Witness ==
    /\ pc = "exit"
    /\ spawned = 1
    /\ child.state = "exited"
    /\ child.code = 1

C8_Original ==
    child.state # "none" => (child.cmd.stdin /\ child.cmd.stdout)

\* C8, amended: every child process is started with the standard output of
\* the program, and all but the one of ls <alias> with its standard input
\* as well; the child of ls <alias> does not get the standard input.
C8_Streams ==
    child.state # "none"
        => /\ child.cmd.stdout
           /\ child.cmd.stdin <=> (Op # "ls")

\* the child of ls <alias> runs with the standard output and without the
\* standard input
C8_Witness ==
    /\ child.state = "running"
    /\ Op = "ls"
    /\ child.cmd.name = "virsh"
    /\ ~child.cmd.stdin
    /\ child.cmd.stdout

\* C9: the alias listing partitions the host table: every alias is printed
\* exactly once, under the first header iff the domain of its record is
\* empty and under the second otherwise, and each of the two listings is in
\* ascending order.
C9_Partition ==
    (pc = "exit" /\ Len(out) >= 1 /\ out[1] = Println("Supported phost:"))
        => LET v == VirtHeaderAt(out)
               p == CellNames(out, 2, v - 1)
               q == CellNames(out, v + 1, Len(out))
           IN  /\ v >= 2
               /\ Range(p) = PhysAliases
               /\ Range(q) = VirtAliases
               /\ Len(p) = Cardinality(PhysAliases)
               /\ Len(q) = Cardinality(VirtAliases)
               /\ Ascending(p)
               /\ Ascending(q)

\* a listing with two aliases under the same header
C9_Witness ==
    /\ pc = "exit"
    /\ Len(out) >= 1
    /\ out[1] = Println("Supported phost:")
    /\ Cardinality(PhysAliases) >= 2
    /\ Len(CellNames(out, 2, VirtHeaderAt(out) - 1)) >= 2

\* the record under the parent-host key of h, empty when there is none
ParentRecord(h) ==
    IF h.phost \in DOMAIN hosts
    THEN hosts[h.phost]
    ELSE [addr |-> "", port |-> "", domain |-> "", phost |-> ""]

ParentUri(h) ==
    "qemu+ssh://root@" \o ParentRecord(h).addr \o ":" \o ParentRecord(h).port \o "/system"

\* C10: for ls <alias>, go and view with an alias that resolves, the child is
\* given the address and port of the record under the alias's parent-host
\* key, view naming the alias's own domain; with no record under that key
\* the child is still started, with empty address and port, and nothing is
\* reported before it.  ssh, copy and copy-id use the alias's own address
\* and port.
C10_Coordinates ==
    /\ pc = "run" => (out = <<>> /\ err = "nil")
    /\ (Dispatched /\ AliasResolves /\ err # SpawnError /\ Op \in Commands)
        => LET h    == hosts[Alias]
               argv == child.cmd.argv
               user == var_extend_user[Arg(args, 3)]
           IN  /\ Op = "ls" =>
                    /\ child.cmd.name = "virsh"
                    /\ argv = <<"-c", ParentUri(h), "list --all">>
               /\ Op = "go" =>
                    /\ child.cmd.name = "virsh"
                    /\ argv = <<"-c", ParentUri(h)>>
               /\ (Op = "view" /\ h.domain # "") =>
                    /\ child.cmd.name = "virt-viewer"
                    /\ argv = <<"-c", ParentUri(h), h.domain>>
               /\ (Op = "ssh" /\ ShortcutResolves) =>
                    /\ child.cmd.name = "ssh"
                    /\ argv[3] = h.port
                    /\ argv[4] = user \o "@" \o h.addr
               /\ (Op = "copy" /\ NArgs(args) >= 5 /\ ShortcutResolves) =>
                    /\ child.cmd.name = "scp"
                    /\ argv[2] = h.port
                    /\ argv[Len(argv)] = user \o "@" \o h.addr \o ":"
               /\ (Op = "copy-id" /\ ShortcutResolves) =>
                    /\ child.cmd.name = "ssh-copy-id"
                    /\ argv = <<"-p", h.port, user \o "@" \o h.addr>>

\* view of a virtual alias whose parent host is not in the table
C10_Witness ==
    /\ Dispatched
    /\ AliasResolves
    /\ Op = "view"
    /\ hosts[Alias].phost \notin DOMAIN hosts
    /\ child.state = "running"
    /\ child.cmd.argv = <<"-c", "qemu+ssh://root@:/system", hosts[Alias].domain>>

====
